---- MODULE Spec2Model ----
(***************************************************************************)
(* Model of migration.js: the one-shot migration of the Sakila relational  *)
(* schema into a key-value store (country, city) and a document store      *)
(* (actor, film).  runMigration is modelled step by step: one action per   *)
(* awaited operation, with the synchronous code that follows it.           *)
(***************************************************************************)
EXTENDS Integers, Sequences, FiniteSets, TLC

\* ------------------------------------------------------------------ bounds
MaxCountry == 2
MaxCity == 1
MaxActor == 2
MaxFilm == 1
MaxCategory == 2
MaxLanguage == 2

\* ------------------------------------------------------------ value model
\* A nullable column or an optional JS number is <<>> (NULL / NaN / undefined)
\* or <<v>>.  JS null and undefined as property values are tagged records, so
\* that they compare with the {id, name} objects.
Nil == << >>
Some(v) == <<v>>
JsNull == [t |-> "null"]
JsUndefined == [t |-> "undefined"]
EmptyMap == [k \in {} |-> k]

\* Text is a sequence of one-character strings (names are one opaque token).
DigitChars == <<"0", "1", "2", "3", "4", "5", "6", "7", "8", "9">>
IsDigit(c) == \E d \in 1..10 : DigitChars[d] = c
DigitVal(c) == (CHOOSE d \in 1..10 : DigitChars[d] = c) - 1

\* Number.prototype.toString, `${n}` and SQL n::text, for the non-negative
\* integers a serial key takes.
RECURSIVE ToText(_)
ToText(n) ==
    IF n < 10 THEN <<DigitChars[n + 1]>>
    ELSE ToText(n \div 10) \o <<DigitChars[(n % 10) + 1]>>

\* parseInt(s): the value of the longest prefix of digits, NaN (Nil) if none.
RECURSIVE ParseDigits(_, _)
ParseDigits(s, acc) ==
    IF s = << >> \/ ~IsDigit(Head(s)) THEN acc
    ELSE ParseDigits(Tail(s), acc * 10 + DigitVal(Head(s)))

ParseInt(s) ==
    IF s = << >> \/ ~IsDigit(Head(s)) THEN Nil ELSE Some(ParseDigits(s, 0))

\* parseFloat(s) of a numeric(_,2) column the driver yields as text "d.dd":
\* the number, held exactly as a count of hundredths.
RECURSIVE DropDigits(_)
DropDigits(s) == IF s = << >> \/ ~IsDigit(Head(s)) THEN s ELSE DropDigits(Tail(s))

ParseFloat(s) ==
    IF ParseInt(s) = Nil THEN [t |-> "NaN"]
    ELSE LET rest == DropDigits(s)
             frac == IF rest # << >> /\ Head(rest) = "." THEN Tail(rest) ELSE << >>
             d1 == IF Len(frac) >= 1 /\ IsDigit(frac[1]) THEN DigitVal(frac[1]) ELSE 0
             d2 == IF Len(frac) >= 2 /\ IsDigit(frac[1]) /\ IsDigit(frac[2])
                   THEN DigitVal(frac[2]) ELSE 0
         IN  [t |-> "float", hundredths |-> ParseInt(s)[1] * 100 + d1 * 10 + d2]

\* String.prototype.split(','): the pieces between commas ("" gives [""]).
RECURSIVE SplitFrom(_, _)
SplitFrom(s, cur) ==
    IF s = << >> THEN <<cur>>
    ELSE IF Head(s) = "," THEN <<cur>> \o SplitFrom(Tail(s), << >>)
    ELSE SplitFrom(Tail(s), Append(cur, Head(s)))

Split(s) == SplitFrom(s, << >>)

\* The ascending enumeration of a finite set of integers.
RECURSIVE SortedSeq(_)
SortedSeq(S) ==
    IF S = {} THEN << >>
    ELSE LET m == CHOOSE x \in S : \A y \in S : x <= y
         IN  <<m>> \o SortedSeq(S \ {m})

\* STRING_AGG(DISTINCT id::text, ',') over the ids joined to one film: NULL
\* when the outer join matched nothing, else the ids' texts joined by commas.
RECURSIVE JoinTexts(_)
JoinTexts(ids) ==
    IF Len(ids) = 1 THEN ToText(ids[1])
    ELSE ToText(ids[1]) \o <<",">> \o JoinTexts(Tail(ids))

StringAgg(S) == IF S = {} THEN Nil ELSE Some(JoinTexts(SortedSeq(S)))

\* JS truthiness of a nullable integer and of a nullable text.
TruthyInt(m) == m # Nil /\ m[1] # 0
TruthyText(m) == m # Nil /\ m[1] # << >>

\* Date.prototype.toISOString of a timestamp (held as a day number).
ToISOString(ts) == <<"iso:">> \o ToText(ts)

\* ------------------------------------------------------- the relational source
CountryIds == 1..MaxCountry
CityIds == 1..MaxCity
ActorIds == 1..MaxActor
FilmIds == 1..MaxFilm
LanguageIds == 1..MaxLanguage
\* Category keys are spread so that keys of more than one digit occur.
CategoryIds == {11 * k - 10 : k \in 1..MaxCategory}

CountryRow(id) ==
    [country_id |-> id, country |-> <<"Country#">> \o ToText(id), last_update |-> 100 + id]

CityRow(id, cid) ==
    [city_id |-> id, city |-> <<"City#">> \o ToText(id), country_id |-> cid,
     last_update |-> 200 + id]

LanguageRow(id) ==
    [language_id |-> id, name |-> <<"Language#">> \o ToText(id), last_update |-> 300 + id]

CategoryRow(id) ==
    [category_id |-> id, name |-> <<"Category#">> \o ToText(id), last_update |-> 400 + id]

ActorRow(id) ==
    [actor_id |-> id, first_name |-> <<"First#">> \o ToText(id),
     last_name |-> <<"Last#">> \o ToText(id), last_update |-> 500 + id]

FilmRow(id, lang, olang, sf) ==
    [film_id |-> id, title |-> <<"Title#">> \o ToText(id),
     description |-> <<"Description#">> \o ToText(id), release_year |-> 2006,
     rental_duration |-> 6, rental_rate |-> <<"4", ".", "9", "9">>, length |-> 86,
     replacement_cost |-> <<"2", "0", ".", "9", "9">>, rating |-> <<"PG">>,
     special_features |-> sf, last_update |-> 600 + id,
     language_id |-> lang, original_language_id |-> olang]

\* The rows of the language, category and actor tables whose keys are S, in
\* ascending key order.
LanguageTable(S) == [i \in 1..Cardinality(S) |-> LanguageRow(SortedSeq(S)[i])]
CategoryTable(S) == [i \in 1..Cardinality(S) |-> CategoryRow(SortedSeq(S)[i])]
ActorTable(S) == [i \in 1..Cardinality(S) |-> ActorRow(SortedSeq(S)[i])]

\* City tables over the keys C whose foreign keys lie in the country keys K.
CityTables(C, K) ==
    {[i \in 1..Cardinality(C) |-> CityRow(SortedSeq(C)[i], f[SortedSeq(C)[i]])] :
        f \in [C -> K]}

SpecialFeatureTexts ==
    {Nil, Some(<< >>), Some(<<"T", "r", ",", "D", "e">>)}

\* The country tables holding the keys S in any order (a query without
\* ORDER BY yields the rows in an order the server chooses).
CountryTables(S) ==
    {[i \in 1..Cardinality(S) |-> CountryRow(p[i])] :
        p \in {q \in [1..Cardinality(S) -> S] : \A i, j \in 1..Cardinality(S) :
                                                    q[i] = q[j] => i = j}}

\* Databases of the full run: any set of countries in any order, cities 1..n
\* referring to them, actors 1..n, films n..1 each in every category and with
\* every actor.
MainDb(cs, ct, na, nf) ==
    [country |-> cs,
     city |-> ct,
     language |-> LanguageTable(LanguageIds),
     category |-> CategoryTable(CategoryIds),
     actor |-> ActorTable(1..na),
     film |-> [i \in 1..nf |->
                FilmRow(nf + 1 - i, 1, Nil, Some(<<"T", "r", ",", "D", "e">>))],
     film_category |-> (1..nf) \X CategoryIds,
     film_actor |-> (1..nf) \X (1..na)]

CityTablesFor(K) ==
    UNION {CityTables(1..nc, K) : nc \in 0..(IF K = {} THEN 0 ELSE MaxCity)}

MainDbs ==
    UNION {UNION {{MainDb(cs, ct, na, nf) :
                        cs \in CountryTables(K),
                        na \in 0..MaxActor, nf \in 0..MaxFilm} :
                    ct \in CityTablesFor(K)} :
            K \in SUBSET CountryIds}

\* Databases for the film transformation: one film whose language, original
\* language, special features and category links vary, over any category table
\* (a link may name a category the table no longer holds).
FilmDbs ==
    {[country |-> << >>,
      city |-> << >>,
      language |-> LanguageTable(L),
      category |-> CategoryTable(C),
      actor |-> << >>,
      film |-> <<FilmRow(1, lang, olang, sf)>>,
      film_category |-> {1} \X FC,
      film_actor |-> {1} \X FA] :
        L \in SUBSET LanguageIds \ {{}},
        C \in SUBSET CategoryIds,
        lang \in LanguageIds,
        olang \in {Nil} \cup {Some(l) : l \in LanguageIds},
        sf \in SpecialFeatureTexts,
        FC \in SUBSET CategoryIds,
        FA \in {{}, {2, 11}}}

\* ------------------------------------------------------- the key-value store
HashValue(fields) == [type |-> "hash", fields |-> fields]
StringValue == [type |-> "string", fields |-> EmptyMap]

Merge(f, g) == [k \in DOMAIN f \cup DOMAIN g |-> IF k \in DOMAIN g THEN g[k] ELSE f[k]]

\* HSET key field value ...: refused (WRONGTYPE) when the key holds a value
\* that is not a hash; otherwise the fields are set, the others kept.
HasKey(store, key) == \E k \in DOMAIN store : k = key

HSetAccepted(store, key) ==
    IF HasKey(store, key) THEN store[key].type = "hash" ELSE TRUE

HSet(store, key, fields) ==
    LET old == IF HasKey(store, key) THEN store[key].fields ELSE EmptyMap
    IN  [k \in DOMAIN store \cup {key} |->
            IF k = key THEN HashValue(Merge(old, fields)) ELSE store[k]]

CountryKey(id) == <<"country:">> \o ToText(id)
CityKey(id) == <<"city:">> \o ToText(id)

\* Stores found before the run: empty; a previous run's country 1 and a key of
\* another application; a key city:1 holding a plain string.
InitialRedisStores ==
    {EmptyMap,
     (CountryKey(1) :> HashValue([country_id |-> <<"o", "l", "d">>, legacy |-> <<"x">>]))
        @@ (<<"session:", "a">> :> StringValue),
     (CityKey(1) :> StringValue)}

\* -------------------------------------------------------- the document store
Put(coll, doc) ==
    [i \in DOMAIN coll \cup {doc._id} |-> IF i = doc._id THEN doc ELSE coll[i]]

RECURSIVE InsertPrefix(_, _, _)
InsertPrefix(coll, docs, k) ==
    IF k = 0 THEN coll ELSE Put(InsertPrefix(coll, docs, k - 1), docs[k])

\* The index of the first document whose _id is already taken (by the
\* collection or by an earlier document of the batch), Len + 1 if none.
FirstDuplicate(coll, docs) ==
    LET dup(i) == docs[i]._id \in DOMAIN coll
                    \/ \E j \in 1..(i - 1) : docs[j]._id = docs[i]._id
        D == {i \in 1..Len(docs) : dup(i)}
    IN  IF D = {} THEN Len(docs) + 1 ELSE CHOOSE i \in D : \A j \in D : i <= j

\* Collections found before the run: empty, or a previous run's leftovers.
InitialMongoDbs ==
    {[films |-> EmptyMap, actors |-> EmptyMap],
     [films |-> (1 :> [_id |-> 1, title |-> <<"stale">>]),
      actors |-> (2 :> [_id |-> 2, first_name |-> <<"stale">>])]}

\* ------------------------------------------------------------ transformation
\* The field map written for a country (migrateCountriesToRedis).
CountryFields(country) ==
    [country_id |-> ToText(country.country_id),
     country_name |-> country.country,
     last_update |-> ToISOString(country.last_update)]

CityFieldsOwnKey(city) ==
    [city_id |-> ToText(city.city_id),
     city_name |-> city.city,
     country_id |-> ToText(city.city_id),
     last_update |-> ToISOString(city.last_update)]

\* The field map written for a city (migrateCitiesToRedis).
CityFields(city) ==
    [city_id |-> ToText(city.city_id),
     city_name |-> city.city,
     country_id |-> ToText(city.country_id),
     last_update |-> ToISOString(city.last_update)]

\* fetchLanguages / fetchCategories: the rows reduced to id -> {id, name}.
LanguagesMapOf(rows) ==
    [id \in {rows[i].language_id : i \in 1..Len(rows)} |->
        LET r == rows[CHOOSE i \in 1..Len(rows) : rows[i].language_id = id]
        IN  [id |-> r.language_id, name |-> r.name]]

CategoriesMapOf(rows) ==
    [id \in {rows[i].category_id : i \in 1..Len(rows)} |->
        LET r == rows[CHOOSE i \in 1..Len(rows) : rows[i].category_id = id]
        IN  [id |-> r.category_id, name |-> r.name]]

\* map[key] of a JS object used as a map: undefined for a missing key, and for
\* the key NaN.
Lookup(map, key) == IF key \in DOMAIN map THEN map[key] ELSE JsUndefined
LookupParsed(map, p) == IF p = Nil THEN JsUndefined ELSE Lookup(map, p[1])

IsTruthyValue(v) == v # JsUndefined /\ v # JsNull

ResolveCategoriesUnfiltered(category_ids, categoriesMap) ==
    IF TruthyText(category_ids)
    THEN LET parts == Split(category_ids[1])
         IN  [i \in 1..Len(parts) |-> LookupParsed(categoriesMap, ParseInt(parts[i]))]
    ELSE << >>

\* film.category_ids ? split(',').map(id => categoriesMap[parseInt(id)])
\*                        .filter(Boolean) : []
ResolveCategories(category_ids, categoriesMap) ==
    IF TruthyText(category_ids)
    THEN LET parts == Split(category_ids[1])
         IN  SelectSeq([i \in 1..Len(parts) |->
                            LookupParsed(categoriesMap, ParseInt(parts[i]))],
                       IsTruthyValue)
    ELSE << >>

\* film.actor_ids ? split(',').map(id => parseInt(id)) : []
ParseActorIds(actor_ids) ==
    IF TruthyText(actor_ids)
    THEN LET parts == Split(actor_ids[1])
         IN  [i \in 1..Len(parts) |->
                LET p == ParseInt(parts[i]) IN IF p = Nil THEN [t |-> "NaN"] ELSE p[1]]
    ELSE << >>

SplitFeatures(special_features) ==
    IF TruthyText(special_features) THEN Split(special_features[1]) ELSE << >>

OriginalLanguageOfLanguageId(film, languagesMap) ==
    IF TruthyInt(film.original_language_id)
    THEN Lookup(languagesMap, film.language_id)
    ELSE JsNull

\* film.original_language_id ? languagesMap[film.original_language_id] : null
OriginalLanguage(film, languagesMap) ==
    IF TruthyInt(film.original_language_id)
    THEN Lookup(languagesMap, film.original_language_id[1])
    ELSE JsNull

ActorDoc(actor) ==
    [_id |-> actor.actor_id, first_name |-> actor.first_name,
     last_name |-> actor.last_name, last_update |-> actor.last_update]

FilmDoc(film, languagesMap, categoriesMap) ==
    [_id |-> film.film_id,
     title |-> film.title,
     description |-> film.description,
     release_year |-> film.release_year,
     rental_duration |-> film.rental_duration,
     rental_rate |-> ParseFloat(film.rental_rate),
     length |-> film.length,
     replacement_cost |-> ParseFloat(film.replacement_cost),
     rating |-> film.rating,
     special_features |-> SplitFeatures(film.special_features),
     last_update |-> film.last_update,
     language |-> Lookup(languagesMap, film.language_id),
     original_language |-> OriginalLanguage(film, languagesMap),
     categories |-> ResolveCategories(film.category_ids, categoriesMap),
     actors |-> ParseActorIds(film.actor_ids)]

\* fetchFilms: every film row, in ascending film_id, with the two aggregates
\* of its outer joins.
FilmQuery(database) ==
    LET ids == SortedSeq({database.film[i].film_id : i \in 1..Len(database.film)})
        row(id) == database.film[CHOOSE i \in 1..Len(database.film) :
                                    database.film[i].film_id = id]
    IN  [i \in 1..Len(ids) |->
            row(ids[i]) @@
            [category_ids |->
                StringAgg({l[2] : l \in {m \in database.film_category : m[1] = ids[i]}}),
             actor_ids |->
                StringAgg({l[2] : l \in {m \in database.film_actor : m[1] = ids[i]}})]]

\* What the document store keeps of a film document: the driver writes an
\* undefined property as null.
AsStored(v) == IF v = JsUndefined THEN JsNull ELSE v

StoredFilm(doc) ==
    [doc EXCEPT !.language = AsStored(@), !.original_language = AsStored(@)]

\* -------------------------------------------------------------------- state
VARIABLES
    pc,             \* the awaited operation runMigration is at
    exitCode,       \* Nil while the process runs, Some(status) once it has ended
    clearFlag,      \* process.env.CLEAR_NOSQL_DATA: Nil (unset) or Some(text)
    db,             \* the relational source
    pgClient, redisClient, mongoClient,   \* whether the handle is assigned
    opened,         \* the connections whose connect() succeeded
    closeAttempted, \* the connections whose close was called
    closeFailed,    \* the connections whose close raised
    redis,          \* the key-value store: key -> value
    mongo,          \* the document store: collection -> (_id -> document)
    rows, idx,      \* the rows being written one by one, and the next one
    languagesMap, categoriesMap,
    docs,           \* the documents built for the pending bulk insert
    redis0, mongo0, \* the stores as found before the run
    cleared,        \* the cleanup operations done
    log,            \* the records written, in order: the entity of each
    trace,          \* the operations completed, in order
    failedAt        \* the operation that raised, "none" if none did

vars ==
    <<pc, exitCode, clearFlag, db, pgClient, redisClient, mongoClient, opened,
      closeAttempted, closeFailed, redis, mongo, rows, idx, languagesMap,
      categoriesMap, docs, redis0, mongo0, cleared, log, trace, failedAt>>

ClearFlags == {Nil, Some("true"), Some("false")}

ClearRequestedIfSet == clearFlag # Nil

\* process.env.CLEAR_NOSQL_DATA === 'true'
ClearRequested == clearFlag = Some("true")

MigrationOrderCitiesFirst ==
    <<"fetchCities", "fetchCountries", "fetchLanguages", "fetchCategories",
      "fetchActors", "fetchFilms">>

\* The calls of steps 2 and 3 of the try block, in program order.
MigrationOrder ==
    <<"fetchCountries", "fetchCities", "fetchLanguages", "fetchCategories",
      "fetchActors", "fetchFilms">>

\* Where control goes when the call that began with `step` returns: the next
\* call, or the finally block after the last.
After(step) ==
    LET i == CHOOSE j \in 1..Len(MigrationOrder) : MigrationOrder[j] = step
    IN  IF i < Len(MigrationOrder) THEN MigrationOrder[i + 1] ELSE "closePg"

OnErrorConnectUnawaited(step) ==
    IF step = "connectPg" THEN "connectRedis" ELSE "catch"

\* Where control goes when the operation at `step` raises: everything from
\* the first connect to the last insert is inside the one try block.
OnError(step) == "catch"

\* The operations that may raise at any time (the bulk inserts and the closes
\* have outcomes of their own).
FallibleSteps ==
    {"connectPg", "connectRedis", "connectMongo", "flushDb", "deleteFilms",
     "deleteActors", "fetchCountries", "hSetCountry", "fetchCities", "hSetCity",
     "fetchLanguages", "fetchCategories", "fetchActors", "fetchFilms"}

Repeat(x, n) == [i \in 1..n |-> x]

Init ==
    /\ pc = "connectPg"
    /\ exitCode = Nil
    /\ clearFlag \in ClearFlags
    /\ db \in MainDbs
    /\ pgClient = FALSE /\ redisClient = FALSE /\ mongoClient = FALSE
    /\ opened = {} /\ closeAttempted = {} /\ closeFailed = {}
    /\ redis \in InitialRedisStores
    /\ mongo \in InitialMongoDbs
    /\ rows = << >> /\ idx = 1
    /\ languagesMap = EmptyMap /\ categoriesMap = EmptyMap
    /\ docs = << >>
    /\ redis0 = redis /\ mongo0 = mongo
    /\ cleared = {}
    /\ log = << >>
    /\ trace = << >>
    /\ failedAt = "none"

\* ------------------------------------------------------------------ actions
envVars == <<clearFlag, db, redis0, mongo0>>
connVars == <<pgClient, redisClient, mongoClient, opened>>
closeVars == <<closeAttempted, closeFailed>>
localVars == <<rows, idx, languagesMap, categoriesMap, docs>>
storeVars == <<redis, mongo, cleared, log>>

\* pgClient = new Client(pgConfig); await pgClient.connect()
ConnectPg ==
    /\ pc = "connectPg"
    /\ pgClient' = TRUE
    /\ opened' = opened \cup {"pg"}
    /\ pc' = "connectRedis"
    /\ trace' = Append(trace, pc)
    /\ UNCHANGED <<exitCode, redisClient, mongoClient, failedAt>>
    /\ UNCHANGED <<envVars, closeVars, localVars, storeVars>>

\* redisClient = redis.createClient(redisConfig); await redisClient.connect()
ConnectRedis ==
    /\ pc = "connectRedis"
    /\ redisClient' = TRUE
    /\ opened' = opened \cup {"redis"}
    /\ pc' = "connectMongo"
    /\ trace' = Append(trace, pc)
    /\ UNCHANGED <<exitCode, pgClient, mongoClient, failedAt>>
    /\ UNCHANGED <<envVars, closeVars, localVars, storeVars>>

\* mongoClient = new MongoClient(uri); await mongoClient.connect(); then the
\* test of the cleanup flag.
ConnectMongo ==
    /\ pc = "connectMongo"
    /\ mongoClient' = TRUE
    /\ opened' = opened \cup {"mongo"}
    /\ pc' = IF ClearRequested THEN "flushDb" ELSE MigrationOrder[1]
    /\ trace' = Append(trace, pc)
    /\ UNCHANGED <<exitCode, pgClient, redisClient, failedAt>>
    /\ UNCHANGED <<envVars, closeVars, localVars, storeVars>>

\* await redisClient.flushDb()
FlushDb ==
    /\ pc = "flushDb"
    /\ redis' = EmptyMap
    /\ cleared' = cleared \cup {"redis"}
    /\ pc' = "deleteFilms"
    /\ trace' = Append(trace, pc)
    /\ UNCHANGED <<exitCode, mongo, log, failedAt>>
    /\ UNCHANGED <<envVars, connVars, closeVars, localVars>>

\* await mongoDb.collection('films').deleteMany({})
DeleteFilms ==
    /\ pc = "deleteFilms"
    /\ mongo' = [mongo EXCEPT !.films = EmptyMap]
    /\ cleared' = cleared \cup {"films"}
    /\ pc' = "deleteActors"
    /\ trace' = Append(trace, pc)
    /\ UNCHANGED <<exitCode, redis, log, failedAt>>
    /\ UNCHANGED <<envVars, connVars, closeVars, localVars>>

\* await mongoDb.collection('actors').deleteMany({})
DeleteActors ==
    /\ pc = "deleteActors"
    /\ mongo' = [mongo EXCEPT !.actors = EmptyMap]
    /\ cleared' = cleared \cup {"actors"}
    /\ pc' = MigrationOrder[1]
    /\ trace' = Append(trace, pc)
    /\ UNCHANGED <<exitCode, redis, log, failedAt>>
    /\ UNCHANGED <<envVars, connVars, closeVars, localVars>>

\* const countries = await fetchCountries(pgClient)
FetchCountries ==
    /\ pc = "fetchCountries"
    /\ rows' = db.country
    /\ idx' = 1
    /\ pc' = IF db.country = << >> THEN After("fetchCountries") ELSE "hSetCountry"
    /\ trace' = Append(trace, pc)
    /\ UNCHANGED <<exitCode, languagesMap, categoriesMap, docs, failedAt>>
    /\ UNCHANGED <<envVars, connVars, closeVars, storeVars>>

\* One turn of the loop: await redisClient.hSet(`country:${id}`, {...})
HSetCountry ==
    /\ pc = "hSetCountry"
    /\ LET country == rows[idx]
           key == CountryKey(country.country_id)
       IN  /\ HSetAccepted(redis, key)
           /\ redis' = HSet(redis, key, CountryFields(country))
    /\ log' = Append(log, "country")
    /\ IF idx = Len(rows)
       THEN pc' = After("fetchCountries") /\ rows' = << >> /\ idx' = 1
       ELSE pc' = pc /\ rows' = rows /\ idx' = idx + 1
    /\ trace' = Append(trace, pc)
    /\ UNCHANGED <<exitCode, mongo, cleared, languagesMap, categoriesMap, docs, failedAt>>
    /\ UNCHANGED <<envVars, connVars, closeVars>>

\* const cities = await fetchCities(pgClient)
FetchCities ==
    /\ pc = "fetchCities"
    /\ rows' = db.city
    /\ idx' = 1
    /\ pc' = IF db.city = << >> THEN After("fetchCities") ELSE "hSetCity"
    /\ trace' = Append(trace, pc)
    /\ UNCHANGED <<exitCode, languagesMap, categoriesMap, docs, failedAt>>
    /\ UNCHANGED <<envVars, connVars, closeVars, storeVars>>

\* One turn of the loop: await redisClient.hSet(`city:${id}`, {...})
HSetCity ==
    /\ pc = "hSetCity"
    /\ LET city == rows[idx]
           key == CityKey(city.city_id)
       IN  /\ HSetAccepted(redis, key)
           /\ redis' = HSet(redis, key, CityFields(city))
    /\ log' = Append(log, "city")
    /\ IF idx = Len(rows)
       THEN pc' = After("fetchCities") /\ rows' = << >> /\ idx' = 1
       ELSE pc' = pc /\ rows' = rows /\ idx' = idx + 1
    /\ trace' = Append(trace, pc)
    /\ UNCHANGED <<exitCode, mongo, cleared, languagesMap, categoriesMap, docs, failedAt>>
    /\ UNCHANGED <<envVars, connVars, closeVars>>

\* const languagesMap = await fetchLanguages(pgClient)
FetchLanguages ==
    /\ pc = "fetchLanguages"
    /\ languagesMap' = LanguagesMapOf(db.language)
    /\ pc' = After("fetchLanguages")
    /\ trace' = Append(trace, pc)
    /\ UNCHANGED <<exitCode, rows, idx, categoriesMap, docs, failedAt>>
    /\ UNCHANGED <<envVars, connVars, closeVars, storeVars>>

\* const categoriesMap = await fetchCategories(pgClient)
FetchCategories ==
    /\ pc = "fetchCategories"
    /\ categoriesMap' = CategoriesMapOf(db.category)
    /\ pc' = After("fetchCategories")
    /\ trace' = Append(trace, pc)
    /\ UNCHANGED <<exitCode, rows, idx, languagesMap, docs, failedAt>>
    /\ UNCHANGED <<envVars, connVars, closeVars, storeVars>>

\* const actors = await fetchActors(pgClient); actorDocs = actors.map(...);
\* no insert call is made for an empty list.
FetchActors ==
    /\ pc = "fetchActors"
    /\ docs' = [i \in 1..Len(db.actor) |-> ActorDoc(db.actor[i])]
    /\ pc' = IF db.actor = << >> THEN After("fetchActors") ELSE "insertActors"
    /\ trace' = Append(trace, pc)
    /\ UNCHANGED <<exitCode, rows, idx, languagesMap, categoriesMap, failedAt>>
    /\ UNCHANGED <<envVars, connVars, closeVars, storeVars>>

\* await mongoDb.collection('actors').insertMany(actorDocs), accepted
InsertActors ==
    /\ pc = "insertActors"
    /\ FirstDuplicate(mongo.actors, docs) > Len(docs)
    /\ mongo' = [mongo EXCEPT !.actors = InsertPrefix(@, docs, Len(docs))]
    /\ log' = log \o Repeat("actor", Len(docs))
    /\ docs' = << >>
    /\ pc' = After("fetchActors")
    /\ trace' = Append(trace, pc)
    /\ UNCHANGED <<exitCode, redis, cleared, rows, idx, languagesMap, categoriesMap, failedAt>>
    /\ UNCHANGED <<envVars, connVars, closeVars>>

\* const films = await fetchFilms(pgClient); the loop that builds filmDocs
FetchFilms ==
    /\ pc = "fetchFilms"
    /\ LET films == FilmQuery(db)
       IN  /\ docs' = [i \in 1..Len(films) |-> FilmDoc(films[i], languagesMap, categoriesMap)]
           /\ pc' = IF films = << >> THEN After("fetchFilms") ELSE "insertFilms"
    /\ trace' = Append(trace, pc)
    /\ UNCHANGED <<exitCode, rows, idx, languagesMap, categoriesMap, failedAt>>
    /\ UNCHANGED <<envVars, connVars, closeVars, storeVars>>

\* await mongoDb.collection('films').insertMany(filmDocs), accepted
InsertFilms ==
    /\ pc = "insertFilms"
    /\ FirstDuplicate(mongo.films, docs) > Len(docs)
    /\ mongo' = [mongo EXCEPT !.films =
                    InsertPrefix(@, [i \in 1..Len(docs) |-> StoredFilm(docs[i])], Len(docs))]
    /\ log' = log \o Repeat("film", Len(docs))
    /\ docs' = << >>
    /\ pc' = After("fetchFilms")
    /\ trace' = Append(trace, pc)
    /\ UNCHANGED <<exitCode, redis, cleared, rows, idx, languagesMap, categoriesMap, failedAt>>
    /\ UNCHANGED <<envVars, connVars, closeVars>>

\* insertMany raises: an ordered bulk insert keeps the documents before the
\* first duplicate _id; or the call is lost before the server applies it.
InsertManyFail ==
    /\ pc \in {"insertActors", "insertFilms"}
    /\ LET name == IF pc = "insertActors" THEN "actors" ELSE "films"
           entity == IF pc = "insertActors" THEN "actor" ELSE "film"
           batch == IF pc = "insertActors" THEN docs
                    ELSE [i \in 1..Len(docs) |-> StoredFilm(docs[i])]
       IN  \E k \in {0, FirstDuplicate(mongo[name], docs) - 1} :
              /\ mongo' = [mongo EXCEPT ![name] = InsertPrefix(@, batch, k)]
              /\ log' = log \o Repeat(entity, k)
    /\ failedAt' = pc
    /\ pc' = OnError(pc)
    /\ UNCHANGED <<exitCode, redis, cleared, trace>>
    /\ UNCHANGED <<envVars, connVars, closeVars, localVars>>

\* A connect, a cleanup call, a query or an hSet raises.  The handle of a
\* connection is assigned before its connect() is awaited.
Fail ==
    /\ pc \in FallibleSteps
    /\ pgClient' = (pgClient \/ pc = "connectPg")
    /\ redisClient' = (redisClient \/ pc = "connectRedis")
    /\ mongoClient' = (mongoClient \/ pc = "connectMongo")
    /\ failedAt' = pc
    /\ pc' = OnError(pc)
    /\ UNCHANGED <<exitCode, opened, trace>>
    /\ UNCHANGED <<envVars, closeVars, localVars, storeVars>>

CatchWithRollback ==
    /\ pc = "catch"
    /\ exitCode' = Some(1)
    /\ pc' = "exited"
    /\ mongo' = [mongo EXCEPT !.actors = EmptyMap, !.films = EmptyMap]
    /\ UNCHANGED <<redis, cleared, log, trace, failedAt>>
    /\ UNCHANGED <<envVars, connVars, closeVars, localVars>>

\* catch (error) { console.error(...); process.exit(1) }: process.exit ends the
\* process at once, so control never reaches the finally block.
Catch ==
    /\ pc = "catch"
    /\ exitCode' = Some(1)
    /\ pc' = "exited"
    /\ UNCHANGED <<trace, failedAt>>
    /\ UNCHANGED <<envVars, connVars, closeVars, localVars, storeVars>>

\* finally: if (pgClient) await pgClient.end()
ClosePg ==
    /\ pc = "closePg"
    /\ closeAttempted' = IF pgClient THEN closeAttempted \cup {"pg"} ELSE closeAttempted
    /\ pc' = "closeRedis"
    /\ trace' = Append(trace, pc)
    /\ UNCHANGED <<exitCode, closeFailed, failedAt>>
    /\ UNCHANGED <<envVars, connVars, localVars, storeVars>>

\* finally: if (redisClient) await redisClient.quit()
CloseRedis ==
    /\ pc = "closeRedis"
    /\ closeAttempted' = IF redisClient THEN closeAttempted \cup {"redis"} ELSE closeAttempted
    /\ pc' = "closeMongo"
    /\ trace' = Append(trace, pc)
    /\ UNCHANGED <<exitCode, closeFailed, failedAt>>
    /\ UNCHANGED <<envVars, connVars, localVars, storeVars>>

\* finally: if (mongoClient) await mongoClient.close(); runMigration returns
\* and the process ends with status 0.
CloseMongo ==
    /\ pc = "closeMongo"
    /\ closeAttempted' = IF mongoClient THEN closeAttempted \cup {"mongo"} ELSE closeAttempted
    /\ pc' = "exited"
    /\ exitCode' = Some(0)
    /\ trace' = Append(trace, pc)
    /\ UNCHANGED <<closeFailed, failedAt>>
    /\ UNCHANGED <<envVars, connVars, localVars, storeVars>>

\* A close raises inside the finally block: the error leaves runMigration,
\* whose promise nobody handles (the call on the last line), and the runtime
\* ends the process with status 1; the closes after it are not reached.
CloseFail ==
    /\ pc \in {"closePg", "closeRedis", "closeMongo"}
    /\ LET h == IF pc = "closePg" THEN "pg" ELSE IF pc = "closeRedis" THEN "redis" ELSE "mongo"
           assigned == IF pc = "closePg" THEN pgClient
                       ELSE IF pc = "closeRedis" THEN redisClient ELSE mongoClient
       IN  /\ assigned
           /\ closeAttempted' = closeAttempted \cup {h}
           /\ closeFailed' = closeFailed \cup {h}
    /\ pc' = "exited"
    /\ exitCode' = Some(1)
    /\ UNCHANGED <<trace, failedAt>>
    /\ UNCHANGED <<envVars, connVars, localVars, storeVars>>

Next ==
    \/ ConnectPg \/ ConnectRedis \/ ConnectMongo
    \/ FlushDb \/ DeleteFilms \/ DeleteActors
    \/ FetchCountries \/ HSetCountry \/ FetchCities \/ HSetCity
    \/ FetchLanguages \/ FetchCategories
    \/ FetchActors \/ InsertActors \/ FetchFilms \/ InsertFilms
    \/ InsertManyFail \/ Fail \/ Catch
    \/ ClosePg \/ CloseRedis \/ CloseMongo \/ CloseFail

Spec == Init /\ [][Next]_vars

\* The film transformation on its own: the run has reached the lookup
\* fetches over a source with no country, city or actor rows; the film and
\* the tables it refers to are drawn from FilmDbs.
InitFilm ==
    /\ pc = "fetchLanguages"
    /\ exitCode = Nil
    /\ clearFlag = Nil
    /\ db \in FilmDbs
    /\ pgClient = TRUE /\ redisClient = TRUE /\ mongoClient = TRUE
    /\ opened = {"pg", "redis", "mongo"} /\ closeAttempted = {} /\ closeFailed = {}
    /\ redis = EmptyMap
    /\ mongo = [films |-> EmptyMap, actors |-> EmptyMap]
    /\ rows = << >> /\ idx = 1
    /\ languagesMap = EmptyMap /\ categoriesMap = EmptyMap
    /\ docs = << >>
    /\ redis0 = redis /\ mongo0 = mongo
    /\ cleared = {}
    /\ log = << >>
    /\ trace = <<"connectPg", "connectRedis", "connectMongo", "fetchCountries", "fetchCities">>
    /\ failedAt = "none"

NextFilm ==
    \/ FetchLanguages \/ FetchCategories \/ FetchActors \/ FetchFilms \/ InsertFilms

SpecFilm == InitFilm /\ [][NextFilm]_vars

\* ------------------------------------------------------------------- claims
InTrace(step) == \E i \in 1..Len(trace) : trace[i] = step
Count(entity) == Cardinality({i \in 1..Len(log) : log[i] = entity})
AllDigits(s) == s # << >> /\ \A i \in 1..Len(s) : IsDigit(s[i])
Exited == pc = "exited"

\* C1: whenever runMigration fails (a connect, the cleanup, a query or a
\* write raises), a close has been attempted on every connection that was
\* opened by the time the process has ended with status one.
C1_TeardownAfterFailure ==
    (Exited /\ failedAt # "none") =>
        (exitCode = Some(1) /\ opened \subseteq closeAttempted)

\* C2: in the teardown phase, when the close of one handle fails, a close is
\* still attempted on every other opened handle.
C2_ClosesIndependentlyGuarded ==
    (Exited /\ closeFailed # {}) => opened \subseteq closeAttempted

\* C3: if opening the relational connection fails, the other two connections
\* are never opened, no cleanup, extraction or load operation is executed, no
\* target store is written, and the process ends with status one.
C3_PgConnectFailureAborts ==
    failedAt = "connectPg" =>
        /\ ~redisClient /\ ~mongoClient
        /\ opened = {}
        /\ trace = << >>
        /\ cleared = {} /\ log = << >>
        /\ redis = redis0 /\ mongo = mongo0
        /\ pc \in {"catch", "exited"}
        /\ (Exited => exitCode = Some(1))

C3_Witness == failedAt = "connectPg" /\ Exited /\ DOMAIN redis0 # {}

\* C4: the process ends with status zero when connection, cleanup, extraction
\* and load all completed without error, with status one when one of them
\* raised, and with no other outcome.
C4_ExitStatus ==
    Exited =>
        /\ exitCode \in {Some(0), Some(1)}
        /\ (failedAt = "none" => exitCode = Some(0))
        /\ (failedAt # "none" => exitCode = Some(1))

\* C5: with the flag exactly "true", the cleanup has run once the migration
\* calls begin, and between the cleanup and the first load write the key-value
\* store has no key and the films and actors collections are empty; with the
\* flag "false" or unset no cleanup operation is ever performed and every
\* record found before the run is unchanged unless a load write has
\* overwritten its key.
WrittenKeys ==
    {CountryKey(db.country[i].country_id) : i \in 1..Count("country")}
        \cup {CityKey(db.city[i].city_id) : i \in 1..Count("city")}

C5_CleanupFrame ==
    /\ (clearFlag = Some("true") /\ InTrace("connectMongo")
            /\ pc \notin {"flushDb", "deleteFilms", "deleteActors"}
            /\ failedAt \notin {"flushDb", "deleteFilms", "deleteActors"})
        => /\ cleared = {"redis", "films", "actors"}
           /\ (log = << >> =>
                 /\ DOMAIN redis = {}
                 /\ DOMAIN mongo.films = {}
                 /\ DOMAIN mongo.actors = {})
    /\ clearFlag # Some("true")
        => /\ cleared = {}
           /\ ~InTrace("flushDb") /\ ~InTrace("deleteFilms") /\ ~InTrace("deleteActors")
           /\ \A k \in DOMAIN redis0 :
                 /\ HasKey(redis, k)
                 /\ k \notin WrittenKeys => redis[k] = redis0[k]
           /\ \A c \in {"films", "actors"} : \A id \in DOMAIN mongo0[c] :
                 /\ id \in DOMAIN mongo[c]
                 /\ mongo[c][id] = mongo0[c][id]

C5_Witness ==
    /\ clearFlag = Some("true")
    /\ pc = "fetchCountries"
    /\ DOMAIN redis0 # {} /\ DOMAIN mongo0.actors # {}
    /\ DOMAIN redis = {} /\ DOMAIN mongo.actors = {}

\* C6: when the bulk insert of films fails after the bulk insert of actors
\* succeeded, then at the end of the process every actor document of this run
\* is in the actors collection and the records of every country and city row
\* are in the key-value store.
C6_NoRollback ==
    (Exited /\ failedAt = "insertFilms") =>
        /\ \A i \in 1..Len(db.actor) :
              /\ db.actor[i].actor_id \in DOMAIN mongo.actors
              /\ mongo.actors[db.actor[i].actor_id].first_name = db.actor[i].first_name
              /\ mongo.actors[db.actor[i].actor_id].last_name = db.actor[i].last_name
        /\ \A i \in 1..Len(db.country) :
              /\ HasKey(redis, CountryKey(db.country[i].country_id))
              /\ redis[CountryKey(db.country[i].country_id)].fields.country_name
                    = db.country[i].country
        /\ \A i \in 1..Len(db.city) :
              /\ HasKey(redis, CityKey(db.city[i].city_id))
              /\ redis[CityKey(db.city[i].city_id)].fields.city_name = db.city[i].city

C6_Witness ==
    /\ Exited /\ failedAt = "insertFilms"
    /\ Count("actor") = MaxActor
    /\ db.country # << >> /\ db.city # << >>

\* C7: the records are written in the order countries, cities, actors, films;
\* a record of a later entity is written only when every row of each earlier
\* entity has been written; and once an operation has failed, no store is
\* written again.
Rank(entity) ==
    IF entity = "country" THEN 1
    ELSE IF entity = "city" THEN 2
    ELSE IF entity = "actor" THEN 3 ELSE 4

RowCount(r) ==
    IF r = 1 THEN Len(db.country)
    ELSE IF r = 2 THEN Len(db.city)
    ELSE IF r = 3 THEN Len(db.actor) ELSE Len(db.film)

CountRank(r) == Cardinality({i \in 1..Len(log) : Rank(log[i]) = r})

OrderedLog ==
    /\ \A i \in 1..Len(log) : \A j \in i..Len(log) : Rank(log[i]) <= Rank(log[j])
    /\ \A j \in 1..Len(log) : \A r \in 1..(Rank(log[j]) - 1) : CountRank(r) = RowCount(r)
    /\ \A r \in 1..4 : CountRank(r) <= RowCount(r)

C7_FixedOrder ==
    /\ []OrderedLog
    /\ [][failedAt # "none" => (redis' = redis /\ mongo' = mongo /\ log' = log)]_vars

C7_Witness ==
    /\ Exited
    /\ Count("country") = MaxCountry /\ Count("city") = MaxCity
    /\ Count("actor") = MaxActor /\ Count("film") = MaxFilm

\* C8: the categories list of a built film document holds exactly the
\* {id, name} objects of the category identifiers linked to the film that the
\* category table holds, once each; the others are left out without an error
\* and a film with no link gets an empty list; the field is always there.
LinkedCategories(film_id) == {l[2] : l \in {m \in db.film_category : m[1] = film_id}}
KnownCategories == {db.category[i].category_id : i \in 1..Len(db.category)}
CategoryName(c) == db.category[CHOOSE i \in 1..Len(db.category) : db.category[i].category_id = c].name

ExpectedCategories(film_id) ==
    {[id |-> c, name |-> CategoryName(c)] : c \in LinkedCategories(film_id) \cap KnownCategories}

C8_CategoriesResolved ==
    pc = "insertFilms" =>
        /\ Len(docs) = Len(db.film)
        /\ \A i \in 1..Len(docs) :
              /\ "categories" \in DOMAIN docs[i]
              /\ {docs[i].categories[j] : j \in 1..Len(docs[i].categories)}
                    = ExpectedCategories(docs[i]._id)
              /\ Len(docs[i].categories) = Cardinality(ExpectedCategories(docs[i]._id))

C8_Witness ==
    /\ pc = "insertFilms"
    /\ LinkedCategories(1) = CategoryIds
    /\ KnownCategories = {12}
    /\ Len(docs[1].categories) = 1
    /\ docs[1].categories[1].id = 12

\* C9: the original_language field of a built film document is always
\* present; it is null when the row's original-language identifier is absent,
\* and the {id, name} object of the language with that identifier when the
\* identifier is given.
KnownLanguages == {db.language[i].language_id : i \in 1..Len(db.language)}
LanguageName(l) == db.language[CHOOSE i \in 1..Len(db.language) : db.language[i].language_id = l].name

KvStepsComplete ==
    /\ InTrace("fetchCountries") /\ InTrace("fetchCities")
    /\ pc \notin {"hSetCountry", "hSetCity"}
    /\ failedAt \notin {"hSetCountry", "hSetCity"}

RecordAt(prefix, id) ==
    {k \in DOMAIN redis :
        Head(k) = prefix /\ AllDigits(Tail(k)) /\ ParseInt(Tail(k)) = Some(id)}

C10_KeyValueRecords ==
    KvStepsComplete =>
        /\ \A i \in 1..Len(db.country) :
              \E k \in RecordAt("country:", db.country[i].country_id) :
                  /\ redis[k].type = "hash"
                  /\ AllDigits(redis[k].fields.country_id)
                  /\ ParseInt(redis[k].fields.country_id) = Some(db.country[i].country_id)
        /\ \A i \in 1..Len(db.city) :
              \E k \in RecordAt("city:", db.city[i].city_id) :
                  /\ redis[k].type = "hash"
                  /\ AllDigits(redis[k].fields.country_id)
                  /\ ParseInt(redis[k].fields.country_id) = Some(db.city[i].country_id)
                  /\ \A j \in 1..Len(db.country) :
                        redis[k].fields.country_id # db.country[j].country

C10_Witness ==
    /\ KvStepsComplete
    /\ clearFlag = Nil
    /\ HasKey(redis0, CountryKey(1))
    /\ Len(db.country) = MaxCountry
    /\ Len(db.city) = MaxCity
    /\ db.city[1].country_id = 2

====
